---- MODULE Spec2Model ----
(***************************************************************************)
(* A model of the WebTransport session multiplexer: the session manager    *)
(* (sessionManager: AddStream, AddUniStream, AddSession, the parking       *)
(* goroutines handleStream / handleUniStream, the datagram pump            *)
(* handleDatagram, Close) and the session object (Conn: the accept queues  *)
(* with their one-slot wake channels, the datagram queue, the blocking     *)
(* calls and Close).                                                        *)
(*                                                                         *)
(* Goroutines are processes with a program counter; a step is one          *)
(* critical section or one select.  The manager mutex m.mx is explicit:    *)
(* an operation first takes it (XxxLock) and then runs its critical        *)
(* section and releases it (XxxBody).  The per-queue mutexes acceptMx /    *)
(* acceptUniMx protect single steps and are not represented.                *)
(***************************************************************************)
EXTENDS Integers, Sequences, FiniteSets, TLC

\* ------------------------------------------------------------------ bounds
MaxStreams == 2      \* streams the QUIC layer hands to the manager
MaxTasks == 2        \* user goroutines calling the session's blocking calls
MaxDgrams == 2       \* datagrams the pump receives in a run
MaxPayload == 1      \* longest datagram payload (bytes after the session id)
MaxCloses == 2       \* Conn.Close() calls per session
MaxBurst == 130      \* datagrams in a burst that overruns the datagram queue
MaxWrites == 2       \* payload writes on an opened stream
MaxCode == 64        \* error codes tried: 0..MaxCode and 2^32-1-MaxCode..2^32-1

\* --------------------------------------------------------------- universe
QConns == {1, 2}                    \* QUIC connections (opaque handles)
SessionIDs == {3, 4, 70}            \* CONNECT stream ids; 70 needs a 2-byte varint
Keys == QConns \X SessionIDs        \* sessionKey{qconn, id}
NoKey == <<0, 0>>
Streams == 1..MaxStreams
Tasks == 1..MaxTasks
BufferedStreamRejected == "WebTransportBufferedStreamRejectedErrorCode"

VARIABLES
    mx,                 \* sessionManager.mx: who holds it
    sessions,           \* sessionManager.sessions
    conns,              \* sessionManager.conns: connections with a datagram pump
    mctx,               \* sessionManager.ctx is cancelled
    refCount,           \* sessionManager.refCount
    mclose,             \* position of the goroutine in sessionManager.Close
    panicked,           \* the process died (nil dereference, fatal map race)
    cctx,               \* Conn.ctx is cancelled, per session
    reqClosed,          \* number of requestStr.Close() calls, per session
    acceptQueue,        \* Conn.acceptQueue
    acceptChan,         \* Conn.acceptChan: tokens in the one-slot channel
    acceptUniQueue,     \* Conn.acceptUniQueue
    acceptUniChan,      \* Conn.acceptUniChan
    rcvDatagramQueue,   \* Conn.rcvDatagramQueue
    str,                \* the QUIC streams handed in: where each one is
    parker,             \* the parking goroutine of each stream
    task,               \* the user goroutines
    delivered,          \* history: streams in the order accept calls popped them
    dgIn,               \* history: number of datagrams the pumps received
    dgOut,              \* history: datagrams ReceiveMessage returned, per session
    xfer,               \* a stream reset on its way through the two adapters
    ostr                \* the QUIC stream the last Open call of a session opened

vars == <<mx, sessions, conns, mctx, refCount, mclose, panicked, cctx, reqClosed,
          acceptQueue, acceptChan, acceptUniQueue, acceptUniChan, rcvDatagramQueue,
          str, parker, task, delivered, dgIn, dgOut, xfer, ostr>>

mgrVars == <<mx, sessions, conns, mctx, refCount, mclose>>
connVars == <<cctx, reqClosed, acceptQueue, acceptChan, acceptUniQueue, acceptUniChan,
              rcvDatagramQueue>>
dgHist == <<dgIn, dgOut>>
adapterVars == <<xfer, ostr>>

\* ------------------------------------------------------------ map values
\* A missing map entry; a present one is the session struct {created, counter, conn}.
\* The Conn of a key is identified by the key (Dial builds it from the same qconn
\* and id it registers it under), so conn records only whether it is attached.
NoSession == [present |-> FALSE, created |-> FALSE, counter |-> 0, conn |-> FALSE]
NewSession == [present |-> TRUE, created |-> FALSE, counter |-> 0, conn |-> FALSE]
MxFree == [op |-> "free", s |-> 0, k |-> NoKey]
NewStream == [st |-> "new", k |-> NoKey, dir |-> "bidi", rd |-> "open", wr |-> "open"]
\* A parking goroutine: where it is, and whether its timer has elapsed.  intime is
\* history: AddSession attached the session while this goroutine was waiting with
\* its timer not elapsed and the manager not cancelled.
NoParker == [pc |-> "none", timer |-> FALSE, intime |-> FALSE]
\* An error value: nil, a *quic.StreamError with its code, the *StreamError of this
\* package with its code, or any other error (io.EOF, a timeout, a conversion
\* failure wrapped around the stream's reset); code is 0 where there is none.
\* Codes are 64-bit (quic.StreamErrorCode) and 32-bit (ErrorCode) unsigned numbers,
\* kept as two limbs, hi * 2^24 + lo.
Limb == 16777216
U(hi, lo) == [hi |-> hi + lo \div Limb, lo |-> lo % Limb]
Nil == [kind |-> "nil", code |-> U(0, 0)]
Err(kind, code) == [kind |-> kind, code |-> code]

\* No reset is under way: no side has cancelled, the QUIC stream carries nothing,
\* the peer's call has not returned.
NoXfer == [pc |-> "idle", side |-> "none", sent |-> U(0, 0), wire |-> Nil, ret |-> Nil]

\* No Open call has been made.  Else: the session and direction of the last one,
\* whether the QUIC stream was opened, the data of the Write calls made on it so
\* far, and whether the call returned an adapter for it.
NoOpen == [k |-> NoKey, dir |-> "none", opened |-> FALSE, writes |-> <<>>, adapter |-> FALSE]

\* A user goroutine: the call it is in (op, on the Conn of k), where it is in it
\* (pc), whether the ctx it passed has been cancelled, and what its last call
\* returned (res).
IdleTask == [pc |-> "idle", op |-> "none", k |-> NoKey, res |-> "none", cancel |-> FALSE]

\* newSessionManager and, per key, the fields newConn sets.
InitState ==
    /\ mx = MxFree
    /\ sessions = [k \in Keys |-> NoSession]
    /\ conns = {}
    /\ mctx = FALSE
    /\ refCount = 0
    /\ mclose = "idle"
    /\ panicked = FALSE
    /\ cctx = [k \in Keys |-> FALSE]
    /\ reqClosed = [k \in Keys |-> 0]
    /\ acceptQueue = [k \in Keys |-> <<>>]
    /\ acceptChan = [k \in Keys |-> 0]
    /\ acceptUniQueue = [k \in Keys |-> <<>>]
    /\ acceptUniChan = [k \in Keys |-> 0]
    /\ rcvDatagramQueue = [k \in Keys |-> <<>>]
    /\ str = [s \in Streams |-> NewStream]
    /\ parker = [s \in Streams |-> NoParker]
    /\ task = [t \in Tasks |-> IdleTask]
    /\ delivered = <<>>
    /\ dgIn = 0
    /\ dgOut = [k \in Keys |-> <<>>]
    /\ xfer = NoXfer
    /\ ostr = NoOpen


\* ----------------------------------------------------- Conn: the producers
\* A non-blocking send on a one-slot channel: the slot is full afterwards whether or
\* not the send went through.
NonBlockingSignal(ch) == 1

\* Fault variant of addStream: the signal is sent but the stream is not appended.
addStreamLost(k, s) ==
    /\ acceptChan' = [acceptChan EXCEPT ![k] = NonBlockingSignal(@)]
    /\ str' = [str EXCEPT ![s].st = "queued"]
    /\ UNCHANGED <<acceptQueue, acceptUniQueue, acceptUniChan, cctx, reqClosed,
                   rcvDatagramQueue>>

\* Conn.addStream
addStream(k, s) ==
    /\ acceptQueue' = [acceptQueue EXCEPT ![k] = Append(@, s)]
    /\ acceptChan' = [acceptChan EXCEPT ![k] = NonBlockingSignal(@)]
    /\ str' = [str EXCEPT ![s].st = "queued"]
    /\ UNCHANGED <<acceptUniQueue, acceptUniChan, cctx, reqClosed, rcvDatagramQueue>>

\* Conn.addUniStream
addUniStream(k, s) ==
    /\ acceptUniQueue' = [acceptUniQueue EXCEPT ![k] = Append(@, s)]
    /\ acceptUniChan' = [acceptUniChan EXCEPT ![k] = NonBlockingSignal(@)]
    /\ str' = [str EXCEPT ![s].st = "queued"]
    /\ UNCHANGED <<acceptQueue, acceptChan, cctx, reqClosed, rcvDatagramQueue>>

\* ------------------------------------------------ sessionManager.AddStream
\* The QUIC layer hands streams over one by one: stream s is the s-th to take m.mx.
HandedOver(s) == \A r \in Streams : r < s => str[r].st # "new"

AddLock(s, k, d, opname) ==
    /\ ~panicked
    /\ mx = MxFree
    /\ str[s].st = "new"
    /\ HandedOver(s)
    /\ mx' = [op |-> opname, s |-> s, k |-> k]
    /\ str' = [str EXCEPT ![s] = [NewStream EXCEPT !.st = "adding", !.k = k, !.dir = d]]
    /\ UNCHANGED <<sessions, conns, mctx, refCount, mclose, panicked, connVars,
                   parker, task, delivered, dgHist, adapterVars>>

\* The session is attached when the entry exists and its conn is set.
Attached(k) == sessions[k].present /\ sessions[k].conn

\* The entry after "if !ok { create }; sess.counter++".
\* (fault variant: the waiter is not counted)
ParkedEntryNoCount(sess) == IF sess.present THEN sess ELSE NewSession
ParkedEntry(sess) ==
    [(IF sess.present THEN sess ELSE NewSession) EXCEPT !.counter = @ + 1]

\* The goroutine AddStream starts: it enters handleStream's select at once;
\* handleUniStream first evaluates the select's channel operands.
Spawn(s, pc0) ==
    /\ refCount' = refCount + 1
    /\ parker' = [parker EXCEPT ![s] = [pc |-> pc0, timer |-> FALSE, intime |-> FALSE]]

AddStreamLock(s, k) == AddLock(s, k, "bidi", "AddStream")

AddStreamBody ==
    /\ ~panicked
    /\ mx.op = "AddStream"
    /\ mx' = MxFree
    /\ IF Attached(mx.k)
       THEN /\ addStream(mx.k, mx.s)
            /\ UNCHANGED <<sessions, refCount, parker, task>>
       ELSE /\ sessions' = [sessions EXCEPT ![mx.k] = ParkedEntry(@)]
            /\ Spawn(mx.s, "select")
            /\ str' = [str EXCEPT ![mx.s].st = "parked"]
            /\ UNCHANGED <<connVars, task>>
    /\ UNCHANGED <<conns, mctx, mclose, panicked, delivered, dgHist, adapterVars>>

AddUniStreamLock(s, k) == AddLock(s, k, "uni", "AddUniStream")

AddUniStreamBody ==
    /\ ~panicked
    /\ mx.op = "AddUniStream"
    /\ mx' = MxFree
    /\ IF Attached(mx.k)
       THEN /\ addUniStream(mx.k, mx.s)
            /\ UNCHANGED <<sessions, refCount, parker, task>>
       ELSE /\ sessions' = [sessions EXCEPT ![mx.k] = ParkedEntry(@)]
            /\ Spawn(mx.s, "start")
            /\ str' = [str EXCEPT ![mx.s].st = "parked"]
            /\ UNCHANGED <<connVars, task>>
    /\ UNCHANGED <<conns, mctx, mclose, panicked, delivered, dgHist, adapterVars>>

\* ----------------------------------------------- sessionManager.AddSession
\* Dial / Upgrade call AddSession once per CONNECT stream, with the Conn newConn
\* has just built for it.
AddSessionLock(k) ==
    /\ ~panicked
    /\ mx = MxFree
    /\ ~sessions[k].conn
    /\ mx' = [op |-> "AddSession", s |-> 0, k |-> k]
    /\ UNCHANGED <<sessions, conns, mctx, refCount, mclose, panicked, connVars,
                   str, parker, task, delivered, dgHist, adapterVars>>

\* The entry AddSession leaves, and whether it reaches the code that starts the pump.
\* (fault variant: conn is set but created is not closed)
AttachedEntryNoSignal(sess) == [present |-> TRUE, created |-> sess.created,
                                counter |-> sess.counter, conn |-> TRUE]
AttachedEntry(sess) == [present |-> TRUE, created |-> TRUE, counter |-> sess.counter,
                        conn |-> TRUE]

\* History only: the parking goroutines AddSession(k) finds waiting in time.
NoteInTime(k) ==
    [s \in Streams |->
        IF /\ str[s].k = k
           /\ parker[s].pc \in {"start", "select"}
           /\ ~parker[s].timer
           /\ ~mctx
        THEN [parker[s] EXCEPT !.intime = TRUE]
        ELSE parker[s]]

AddSessionBody ==
    /\ ~panicked
    /\ mx.op = "AddSession"
    /\ mx' = MxFree
    /\ sessions' = [sessions EXCEPT ![mx.k] = AttachedEntry(@)]
    /\ conns' = IF sessions[mx.k].present THEN conns ELSE conns \cup {mx.k[1]}
    /\ parker' = NoteInTime(mx.k)
    /\ UNCHANGED <<mctx, refCount, mclose, panicked, connVars, str, task,
                   delivered, dgHist, adapterVars>>


\* ------------------------------------------ the parking goroutines (bidi)
\* The reordering timer of s elapses: t.C becomes ready.
TimerFire(s) ==
    /\ ~panicked
    /\ parker[s].pc \in {"start", "select"}
    /\ ~parker[s].timer
    /\ parker' = [parker EXCEPT ![s].timer = TRUE]
    /\ UNCHANGED <<mgrVars, panicked, connVars, str, task, delivered, dgHist, adapterVars>>

\* handleStream, case <-session.created
HandleStreamCreated(s) ==
    /\ ~panicked
    /\ str[s].dir = "bidi"
    /\ parker[s].pc = "select"
    /\ sessions[str[s].k].created
    /\ addStream(str[s].k, s)
    /\ parker' = [parker EXCEPT ![s].pc = "exit"]
    /\ UNCHANGED <<mgrVars, panicked, task, delivered, dgHist, adapterVars>>

\* What the timer case does to the stream: CancelRead and CancelWrite.
RejectReadOnly(st) == [st EXCEPT !.st = "reset", !.rd = BufferedStreamRejected]
RejectBidi(st) ==
    [st EXCEPT !.st = "reset", !.rd = BufferedStreamRejected,
               !.wr = BufferedStreamRejected]

\* handleStream, case <-t.C
\* (fault variant: with created signaled as well, the stream is reset and enqueued)
HandleStreamTimeoutFallthrough(s) ==
    /\ ~panicked
    /\ str[s].dir = "bidi"
    /\ parker[s].pc = "select"
    /\ parker[s].timer
    /\ str' = [str EXCEPT ![s] = RejectBidi(@)]
    /\ acceptQueue' = IF sessions[str[s].k].created
                      THEN [acceptQueue EXCEPT ![str[s].k] = Append(@, s)]
                      ELSE acceptQueue
    /\ parker' = [parker EXCEPT ![s].pc = "exit"]
    /\ UNCHANGED <<mgrVars, panicked, cctx, reqClosed, acceptChan, acceptUniQueue,
                   acceptUniChan, rcvDatagramQueue, task, delivered, dgHist,
                   adapterVars>>
HandleStreamTimeout(s) ==
    /\ ~panicked
    /\ str[s].dir = "bidi"
    /\ parker[s].pc = "select"
    /\ parker[s].timer
    /\ str' = [str EXCEPT ![s] = RejectBidi(@)]
    /\ parker' = [parker EXCEPT ![s].pc = "exit"]
    /\ UNCHANGED <<mgrVars, panicked, connVars, task, delivered, dgHist, adapterVars>>

\* handleStream, case <-m.ctx.Done()
HandleStreamMgrDone(s) ==
    /\ ~panicked
    /\ str[s].dir = "bidi"
    /\ parker[s].pc = "select"
    /\ mctx
    /\ str' = [str EXCEPT ![s].st = "dropped"]
    /\ parker' = [parker EXCEPT ![s].pc = "exit"]
    /\ UNCHANGED <<mgrVars, panicked, connVars, task, delivered, dgHist, adapterVars>>

ExitLock(s, d) ==
    /\ ~panicked
    /\ str[s].dir = d
    /\ parker[s].pc = "exit"
    /\ mx = MxFree
    /\ mx' = [op |-> "exit", s |-> s, k |-> str[s].k]
    /\ UNCHANGED <<sessions, conns, mctx, refCount, mclose, panicked, connVars,
                   str, parker, task, delivered, dgHist, adapterVars>>

\* "session.counter--; if session.counter == 0 && session.conn == nil { delete }"
\* (fault variant: the entry is never deleted)
ExitEntryKeep(sess) == [sess EXCEPT !.counter = @ - 1]
\* (fault variant: the waiter is not taken off the count)
ExitEntryNoDecrement(sess) == IF sess.counter - 1 = 0 /\ ~sess.conn THEN NoSession ELSE sess
ExitEntry(sess) ==
    IF sess.counter - 1 = 0 /\ ~sess.conn
    THEN NoSession
    ELSE [sess EXCEPT !.counter = @ - 1]

\* The critical section at the end of handleStream / handleUniStream, then the
\* deferred refCount.Done().
ExitBody(d) ==
    /\ ~panicked
    /\ mx.op = "exit"
    /\ str[mx.s].dir = d
    /\ mx' = MxFree
    /\ sessions' = [sessions EXCEPT ![mx.k] = ExitEntry(@)]
    /\ refCount' = refCount - 1
    /\ parker' = [parker EXCEPT ![mx.s].pc = "done"]
    /\ UNCHANGED <<conns, mctx, mclose, panicked, connVars, str, task, delivered,
                   dgHist, adapterVars>>

HandleStreamExitLock(s) == ExitLock(s, "bidi")
HandleStreamExitBody == ExitBody("bidi")

\* ------------------------------------------- the parking goroutines (uni)
\* Entering handleUniStream's select evaluates session.conn.ctx.Done(): with no Conn
\* attached yet, session.conn is nil and the goroutine panics, which ends the process.
HandleUniStreamEnter(s) ==
    /\ ~panicked
    /\ str[s].dir = "uni"
    /\ parker[s].pc = "start"
    /\ IF sessions[str[s].k].conn
       THEN /\ parker' = [parker EXCEPT ![s].pc = "select"]
            /\ UNCHANGED panicked
       ELSE /\ panicked' = TRUE
            /\ UNCHANGED parker
    /\ UNCHANGED <<mgrVars, connVars, str, task, delivered, dgHist, adapterVars>>

\* handleUniStream, case <-session.conn.ctx.Done()
HandleUniStreamConnDone(s) ==
    /\ ~panicked
    /\ str[s].dir = "uni"
    /\ parker[s].pc = "select"
    /\ cctx[str[s].k]
    /\ str' = [str EXCEPT ![s].st = "dropped"]
    /\ parker' = [parker EXCEPT ![s].pc = "exit"]
    /\ UNCHANGED <<mgrVars, panicked, connVars, task, delivered, dgHist, adapterVars>>

\* handleUniStream, case <-session.created
HandleUniStreamCreated(s) ==
    /\ ~panicked
    /\ str[s].dir = "uni"
    /\ parker[s].pc = "select"
    /\ sessions[str[s].k].created
    /\ addUniStream(str[s].k, s)
    /\ parker' = [parker EXCEPT ![s].pc = "exit"]
    /\ UNCHANGED <<mgrVars, panicked, task, delivered, dgHist, adapterVars>>

\* handleUniStream, case <-t.C
HandleUniStreamTimeout(s) ==
    /\ ~panicked
    /\ str[s].dir = "uni"
    /\ parker[s].pc = "select"
    /\ parker[s].timer
    /\ str' = [str EXCEPT ![s] = RejectReadOnly(@)]
    /\ parker' = [parker EXCEPT ![s].pc = "exit"]
    /\ UNCHANGED <<mgrVars, panicked, connVars, task, delivered, dgHist, adapterVars>>

\* handleUniStream, case <-m.ctx.Done()
HandleUniStreamMgrDone(s) ==
    /\ ~panicked
    /\ str[s].dir = "uni"
    /\ parker[s].pc = "select"
    /\ mctx
    /\ str' = [str EXCEPT ![s].st = "dropped"]
    /\ parker' = [parker EXCEPT ![s].pc = "exit"]
    /\ UNCHANGED <<mgrVars, panicked, connVars, task, delivered, dgHist, adapterVars>>

HandleUniStreamExitLock(s) == ExitLock(s, "uni")
HandleUniStreamExitBody == ExitBody("uni")

\* --------------------------------------------------- sessionManager.Close
MgrCloseCancel ==
    /\ ~panicked
    /\ mclose = "idle"
    /\ mctx' = TRUE
    /\ mclose' = "wait"
    /\ UNCHANGED <<mx, sessions, conns, refCount, panicked, connVars, str, parker,
                   task, delivered, dgHist, adapterVars>>

MgrCloseWait ==
    /\ ~panicked
    /\ mclose = "wait"
    /\ refCount = 0
    /\ mclose' = "done"
    /\ UNCHANGED <<mx, sessions, conns, mctx, refCount, panicked, connVars, str,
                   parker, task, delivered, dgHist, adapterVars>>


\* ---------------------------------------------------------- quicvarint
\* quicvarint: a value is written big-endian in 1, 2, 4 or 8 bytes, the two top bits
\* of the first byte giving the length.
RECURSIVE BigEndian(_, _)
BigEndian(v, n) == IF n = 0 THEN <<>> ELSE Append(BigEndian(v \div 256, n - 1), v % 256)

VarintLen(v) ==
    CASE v < 64 -> 1
      [] v >= 64 /\ v < 16384 -> 2
      [] v >= 16384 /\ v < 1073741824 -> 4
      [] OTHER -> 8

VarintPrefix(n) == CASE n = 1 -> 0 [] n = 2 -> 64 [] n = 4 -> 128 [] OTHER -> 192

\* quicvarint.Write
VarintWrite(v) ==
    LET n == VarintLen(v)
        b == BigEndian(v, n)
    IN [b EXCEPT ![1] = @ + VarintPrefix(n)]

RECURSIVE FromBigEndian(_)
FromBigEndian(b) ==
    IF b = <<>> THEN 0 ELSE FromBigEndian(SubSeq(b, 1, Len(b) - 1)) * 256 + b[Len(b)]

\* quicvarint.Read: the value and whether the bytes were all there.
VarintRead(data) ==
    IF data = <<>>
    THEN [ok |-> FALSE, v |-> 0]
    ELSE LET n == CASE data[1] < 64 -> 1 [] data[1] \in 64..127 -> 2
                    [] data[1] \in 128..191 -> 4 [] OTHER -> 8
         IN IF Len(data) < n
            THEN [ok |-> FALSE, v |-> 0]
            ELSE [ok |-> TRUE,
                  v |-> FromBigEndian([SubSeq(data, 1, n) EXCEPT ![1] = @ % 64])]


\* ------------------------------------------------- Conn: the user's calls
Idle(t) == task[t].pc \in {"idle", "done"}
Blocked(t) == task[t].pc \in {"select", "open", "recv"}
Returned(t) == task[t].pc = "done"
InCall(t, op) == task[t].op = op /\ ~Idle(t)

\* What a case of a select returns: c.ctx.Err() / "conn closed", and ctx.Err().
CallerCtxErr == "Cancelled"
SessionCtxErr == "SessionClosed"

Return(t, res) == [task EXCEPT ![t].pc = "done", ![t].res = res, ![t].cancel = FALSE]

\* The caller's ctx is cancelled while the call is in progress.
CallerCancel(t) ==
    /\ ~panicked
    /\ ~Idle(t)
    /\ ~task[t].cancel
    /\ task' = [task EXCEPT ![t].cancel = TRUE]
    /\ UNCHANGED <<mgrVars, panicked, connVars, str, parker, delivered, dgHist, adapterVars>>

\* The locked part of AcceptStream / AcceptUniStream on queue q: with a stream
\* queued, the head is taken and returned; else the caller goes on to the select.
PopReady(q) == Len(q) > 0

\* (fault variant: with the queue empty the call returns success all the same)
AcceptLockedBlind(t, op, k, q) ==
    /\ task' = [task EXCEPT ![t] = [pc |-> "done", op |-> op, k |-> k,
                                    res |-> "stream", cancel |-> FALSE]]
    /\ IF PopReady(q)
       THEN /\ str' = [str EXCEPT ![Head(q)].st = "accepted"]
            /\ delivered' = Append(delivered, Head(q))
       ELSE UNCHANGED <<str, delivered>>

AcceptLocked(t, op, k, q) ==
    IF PopReady(q)
    THEN /\ task' = [task EXCEPT ![t] = [pc |-> "done", op |-> op, k |-> k,
                                         res |-> "stream", cancel |-> FALSE]]
         /\ str' = [str EXCEPT ![Head(q)].st = IF reqClosed[k] > 0
                                                THEN "accepted after Close"
                                                ELSE "accepted"]
         /\ delivered' = Append(delivered, Head(q))
    ELSE /\ task' = [task EXCEPT ![t] = [pc |-> "select", op |-> op, k |-> k,
                                         res |-> "none",
                                         cancel |-> ~Idle(t) /\ task[t].cancel]]
         /\ UNCHANGED <<str, delivered>>

\* (fault variant: the head is returned but stays queued)
TakeHeadKeep(queue, k) == queue
TakeHead(queue, k) == IF PopReady(queue[k]) THEN [queue EXCEPT ![k] = Tail(@)] ELSE queue

\* A user goroutine calls AcceptStream on the Conn Dial returned for k.
AcceptStream(t, k) ==
    /\ ~panicked
    /\ Idle(t)
    /\ Attached(k)
    /\ AcceptLocked(t, "AcceptStream", k, acceptQueue[k])
    /\ acceptQueue' = TakeHead(acceptQueue, k)
    /\ UNCHANGED <<mgrVars, panicked, cctx, reqClosed, acceptChan, acceptUniQueue,
                   acceptUniChan, rcvDatagramQueue, parker, dgHist, adapterVars>>

\* The call AcceptStream makes to itself after a wake.
AcceptStreamAgain(t) ==
    /\ ~panicked
    /\ InCall(t, "AcceptStream")
    /\ task[t].pc = "check"
    /\ AcceptLocked(t, "AcceptStream", task[t].k, acceptQueue[task[t].k])
    /\ acceptQueue' = TakeHead(acceptQueue, task[t].k)
    /\ UNCHANGED <<mgrVars, panicked, cctx, reqClosed, acceptChan, acceptUniQueue,
                   acceptUniChan, rcvDatagramQueue, parker, dgHist, adapterVars>>

\* AcceptStream, case <-c.ctx.Done()
AcceptStreamClosed(t) ==
    /\ ~panicked
    /\ InCall(t, "AcceptStream")
    /\ task[t].pc = "select"
    /\ cctx[task[t].k]
    /\ task' = Return(t, SessionCtxErr)
    /\ UNCHANGED <<mgrVars, panicked, connVars, str, parker, delivered, dgHist, adapterVars>>

\* AcceptStream, case <-ctx.Done()
AcceptStreamCancelled(t) ==
    /\ ~panicked
    /\ InCall(t, "AcceptStream")
    /\ task[t].pc = "select"
    /\ task[t].cancel
    /\ task' = Return(t, CallerCtxErr)
    /\ UNCHANGED <<mgrVars, panicked, connVars, str, parker, delivered, dgHist, adapterVars>>

\* AcceptStream, case <-c.acceptChan: take the token and call AcceptStream again.
AcceptStreamWake(t) ==
    /\ ~panicked
    /\ InCall(t, "AcceptStream")
    /\ task[t].pc = "select"
    /\ acceptChan[task[t].k] = 1
    /\ acceptChan' = [acceptChan EXCEPT ![task[t].k] = 0]
    /\ task' = [task EXCEPT ![t].pc = "check"]
    /\ UNCHANGED <<mgrVars, panicked, cctx, reqClosed, acceptQueue, acceptUniQueue,
                   acceptUniChan, rcvDatagramQueue, str, parker, delivered, dgHist, adapterVars>>

AcceptUniStream(t, k) ==
    /\ ~panicked
    /\ Idle(t)
    /\ Attached(k)
    /\ AcceptLocked(t, "AcceptUniStream", k, acceptUniQueue[k])
    /\ acceptUniQueue' = TakeHead(acceptUniQueue, k)
    /\ UNCHANGED <<mgrVars, panicked, cctx, reqClosed, acceptQueue, acceptChan,
                   acceptUniChan, rcvDatagramQueue, parker, dgHist, adapterVars>>

AcceptUniStreamAgain(t) ==
    /\ ~panicked
    /\ InCall(t, "AcceptUniStream")
    /\ task[t].pc = "check"
    /\ AcceptLocked(t, "AcceptUniStream", task[t].k, acceptUniQueue[task[t].k])
    /\ acceptUniQueue' = TakeHead(acceptUniQueue, task[t].k)
    /\ UNCHANGED <<mgrVars, panicked, cctx, reqClosed, acceptQueue, acceptChan,
                   acceptUniChan, rcvDatagramQueue, parker, dgHist, adapterVars>>

AcceptUniStreamClosed(t) ==
    /\ ~panicked
    /\ InCall(t, "AcceptUniStream")
    /\ task[t].pc = "select"
    /\ cctx[task[t].k]
    /\ task' = Return(t, SessionCtxErr)
    /\ UNCHANGED <<mgrVars, panicked, connVars, str, parker, delivered, dgHist, adapterVars>>

AcceptUniStreamCancelled(t) ==
    /\ ~panicked
    /\ InCall(t, "AcceptUniStream")
    /\ task[t].pc = "select"
    /\ task[t].cancel
    /\ task' = Return(t, CallerCtxErr)
    /\ UNCHANGED <<mgrVars, panicked, connVars, str, parker, delivered, dgHist, adapterVars>>

AcceptUniStreamWake(t) ==
    /\ ~panicked
    /\ InCall(t, "AcceptUniStream")
    /\ task[t].pc = "select"
    /\ acceptUniChan[task[t].k] = 1
    /\ acceptUniChan' = [acceptUniChan EXCEPT ![task[t].k] = 0]
    /\ task' = [task EXCEPT ![t].pc = "check"]
    /\ UNCHANGED <<mgrVars, panicked, cctx, reqClosed, acceptQueue, acceptChan,
                   acceptUniQueue, rcvDatagramQueue, str, parker, delivered, dgHist, adapterVars>>

\* The stream header: the frame type (bidi) or stream type (uni) and the session id.
webTransportFrameType == 65
webTransportStreamType == 84
Header(k, dir) ==
    VarintWrite(IF dir = "bidi" THEN webTransportFrameType ELSE webTransportStreamType)
        \o VarintWrite(k[2])

\* (fault variant: the two varints go out in two writes)
writeStreamHeaderSplit(k, dir) ==
    <<VarintWrite(IF dir = "bidi" THEN webTransportFrameType ELSE webTransportStreamType),
      VarintWrite(k[2])>>

\* writeStreamHeader / writeUniStreamHeader: the Write calls made on the new stream.
writeStreamHeader(k, dir) == <<Header(k, dir)>>

\* What an Open call leaves behind: qconn.OpenStream fails and there is no stream;
\* the Write of the header fails after n of its bytes; or both succeed and the
\* adapter is returned.
OpenOutcomes == {"open fails", "write fails", "ok"}
DirOf(op) == IF op \in {"OpenStream", "OpenStreamSync"} THEN "bidi" ELSE "uni"
Opened(k, dir, out, n) ==
    [k |-> k, dir |-> dir, opened |-> out # "open fails",
     writes |-> CASE out = "open fails" -> <<>>
                  [] out = "write fails" -> <<SubSeq(Header(k, dir), 1, n)>>
                  [] OTHER -> writeStreamHeader(k, dir),
     adapter |-> out = "ok"]

\* Conn.OpenStream / Conn.OpenUniStream: they do not block.
Open(op, k) ==
    /\ ~panicked
    /\ Attached(k)
    /\ \E out \in OpenOutcomes :
          \E n \in 0..(Len(Header(k, DirOf(op))) - 1) :
             /\ out # "write fails" => n = 0
             /\ ostr' = Opened(k, DirOf(op), out, n)
    /\ UNCHANGED <<mgrVars, panicked, connVars, str, parker, task, delivered, dgHist,
                   xfer>>

OpenStream(k) == Open("OpenStream", k)
OpenUniStream(k) == Open("OpenUniStream", k)

\* sendStream.Write on the adapter an Open call returned: the user's payload.
WritePayload(b) ==
    /\ ~panicked
    /\ ostr.adapter
    /\ Len(ostr.writes) < 1 + MaxWrites
    /\ ostr' = [ostr EXCEPT !.writes = Append(@, b)]
    /\ UNCHANGED <<mgrVars, panicked, connVars, str, parker, task, delivered, dgHist,
                   xfer>>

\* A call that blocks at once: OpenStreamSync and OpenUniStreamSync in
\* qconn.OpenStreamSync(ctx) / qconn.OpenUniStreamSync(ctx), ReceiveMessage in its
\* select.
Enter(t, op, k, pc0) ==
    /\ ~panicked
    /\ Idle(t)
    /\ Attached(k)
    /\ task' = [task EXCEPT ![t] = [pc |-> pc0, op |-> op, k |-> k, res |-> "none",
                                    cancel |-> FALSE]]
    /\ UNCHANGED <<mgrVars, panicked, connVars, str, parker, delivered, dgHist, adapterVars>>

OpenStreamSync(t, k) == Enter(t, "OpenStreamSync", k, "open")
OpenUniStreamSync(t, k) == Enter(t, "OpenUniStreamSync", k, "open")
ReceiveMessage(t, k) == Enter(t, "ReceiveMessage", k, "recv")

\* The QUIC connection is given the caller's ctx and nothing of the session: it
\* returns a stream when the peer grants stream credit (the header is then written
\* and the adapter returned), or ctx.Err() when the caller's ctx is done.
OpenSyncGranted(t, op) ==
    /\ ~panicked
    /\ InCall(t, op)
    /\ task[t].pc = "open"
    /\ \E out \in OpenOutcomes \ {"open fails"} :
          \E n \in 0..(Len(Header(task[t].k, DirOf(op))) - 1) :
             /\ out # "write fails" => n = 0
             /\ ostr' = Opened(task[t].k, DirOf(op), out, n)
             /\ task' = Return(t, IF out = "ok" THEN "opened" ELSE "error")
    /\ UNCHANGED <<mgrVars, panicked, connVars, str, parker, delivered, dgHist, xfer>>

OpenSyncCancelled(t, op) ==
    /\ ~panicked
    /\ InCall(t, op)
    /\ task[t].pc = "open"
    /\ task[t].cancel
    /\ task' = Return(t, CallerCtxErr)
    /\ UNCHANGED <<mgrVars, panicked, connVars, str, parker, delivered, dgHist, adapterVars>>

OpenStreamSyncGranted(t) == OpenSyncGranted(t, "OpenStreamSync")
OpenStreamSyncCancelled(t) == OpenSyncCancelled(t, "OpenStreamSync")
OpenUniStreamSyncGranted(t) == OpenSyncGranted(t, "OpenUniStreamSync")
OpenUniStreamSyncCancelled(t) == OpenSyncCancelled(t, "OpenUniStreamSync")

\* ReceiveMessage, case data := <-c.rcvDatagramQueue
ReceiveMessageData(t) ==
    /\ ~panicked
    /\ InCall(t, "ReceiveMessage")
    /\ task[t].pc = "recv"
    /\ rcvDatagramQueue[task[t].k] # <<>>
    /\ rcvDatagramQueue' = [rcvDatagramQueue EXCEPT ![task[t].k] = Tail(@)]
    /\ dgOut' = [dgOut EXCEPT ![task[t].k] = Append(@, Head(rcvDatagramQueue[task[t].k]))]
    /\ task' = Return(t, "data")
    /\ UNCHANGED <<mgrVars, panicked, cctx, reqClosed, acceptQueue, acceptChan,
                   acceptUniQueue, acceptUniChan, str, parker, delivered, dgIn,
                   adapterVars>>

\* ReceiveMessage, case <-c.ctx.Done()
ReceiveMessageClosed(t) ==
    /\ ~panicked
    /\ InCall(t, "ReceiveMessage")
    /\ task[t].pc = "recv"
    /\ cctx[task[t].k]
    /\ task' = Return(t, SessionCtxErr)
    /\ UNCHANGED <<mgrVars, panicked, connVars, str, parker, delivered, dgHist, adapterVars>>

\* (fault variant: Close empties the bidi accept queue)
CloseDraining(k) ==
    /\ ~panicked
    /\ Attached(k)
    /\ reqClosed[k] < MaxCloses
    /\ cctx' = [cctx EXCEPT ![k] = TRUE]
    /\ reqClosed' = [reqClosed EXCEPT ![k] = @ + 1]
    /\ acceptQueue' = [acceptQueue EXCEPT ![k] = <<>>]
    /\ UNCHANGED <<mgrVars, panicked, acceptChan, acceptUniQueue,
                   acceptUniChan, rcvDatagramQueue, str, parker, task, delivered,
                   dgHist, adapterVars>>

\* Conn.Close: c.ctxCancel(), then requestStr.Close().
Close(k) ==
    /\ ~panicked
    /\ Attached(k)
    /\ reqClosed[k] < MaxCloses
    /\ cctx' = [cctx EXCEPT ![k] = TRUE]
    /\ reqClosed' = [reqClosed EXCEPT ![k] = @ + 1]
    /\ UNCHANGED <<mgrVars, panicked, acceptQueue, acceptChan, acceptUniQueue,
                   acceptUniChan, rcvDatagramQueue, str, parker, task, delivered,
                   dgHist, adapterVars>>

\* The context of the CONNECT stream, the parent of Conn.ctx, ends.
StreamCtxDone(k) ==
    /\ ~panicked
    /\ Attached(k)
    /\ ~cctx[k]
    /\ cctx' = [cctx EXCEPT ![k] = TRUE]
    /\ UNCHANGED <<mgrVars, panicked, reqClosed, acceptQueue, acceptChan,
                   acceptUniQueue, acceptUniChan, rcvDatagramQueue, str, parker, task,
                   delivered, dgHist, adapterVars>>

\* ---------------------------------------------------------- datagrams
\* Conn.SendMessage: the bytes handed to qconn.SendMessage.
SendMessage(id, b) == VarintWrite(id) \o b

\* What the peer puts on the wire: datagrams its sessions build with SendMessage,
\* and malformed ones (an empty datagram, a 2-byte varint cut short).
PayloadBytes == {97}
Payloads == UNION {[1..n -> PayloadBytes] : n \in 0..MaxPayload}
Sent == [sid : SessionIDs, buf : Payloads]
Malformed == {<<>>, <<64>>}

rcvDatagramQueueCap == 128

\* (fault variant: a full queue gives up its oldest datagram for the new one)
handleDatagramDropOldest(k, item) ==
    rcvDatagramQueue' =
        IF Len(rcvDatagramQueue[k]) < rcvDatagramQueueCap
        THEN [rcvDatagramQueue EXCEPT ![k] = Append(@, item)]
        ELSE [rcvDatagramQueue EXCEPT ![k] = Append(Tail(@), item)]

\* Conn.handleDatagram: a non-blocking send on the buffered channel.
handleDatagram(k, item) ==
    rcvDatagramQueue' =
        IF Len(rcvDatagramQueue[k]) < rcvDatagramQueueCap
        THEN [rcvDatagramQueue EXCEPT ![k] = Append(@, item)]
        ELSE rcvDatagramQueue

\* The key handleDatagram looks up, and the bytes it passes on.
\* (fault variant: the connection is left out of the key)
PumpKeyAnyConn(q, data) == <<1, VarintRead(data).v>>
PumpKey(q, data) == <<q, VarintRead(data).v>>
PumpPayload(data) == Tail(data)
Lookup(key) == IF key \in Keys THEN sessions[key] ELSE NoSession

\* One round of the loop of sessionManager.handleDatagram on connection q, for the
\* datagram `data` that qconn.ReceiveMessage returned.  A queued item carries, as
\* history, what was sent (the connection, the sender's session id and payload) and
\* the number of the datagram.
PumpRound(q, data, sid, buf) ==
    /\ ~panicked
    /\ q \in conns
    /\ dgIn' = dgIn + 1
    /\ LET sess == Lookup(PumpKey(q, data))
       IN IF ~VarintRead(data).ok \/ ~sess.present
          THEN UNCHANGED <<panicked, rcvDatagramQueue>>
          ELSE IF ~sess.conn
               THEN /\ panicked' = TRUE
                    /\ UNCHANGED rcvDatagramQueue
               ELSE /\ handleDatagram(PumpKey(q, data),
                                      [data |-> PumpPayload(data), q |-> q, sid |-> sid,
                                       buf |-> buf, n |-> dgIn + 1])
                    /\ UNCHANGED panicked
    /\ UNCHANGED <<mgrVars, cctx, reqClosed, acceptQueue, acceptChan, acceptUniQueue,
                   acceptUniChan, str, parker, task, delivered, dgOut, adapterVars>>

\* The pump receives a datagram a peer session sent with SendMessage.
PumpReceive(q, m) ==
    /\ dgIn < MaxDgrams
    /\ PumpRound(q, SendMessage(m.sid, m.buf), m.sid, m.buf)

\* The pump receives a malformed datagram.
PumpReceiveMalformed(q, data) ==
    /\ dgIn < MaxDgrams
    /\ PumpRound(q, data, 0, <<>>)

\* The pump reads m.sessions without m.mx.  A read that overlaps a critical section
\* which writes the map is a data race: the Go runtime may stop the process ("fatal
\* error: concurrent map read and map write"); otherwise the read sees the map
\* before or after the write, as any other round does.
WritesMap ==
    \/ mx.op \in {"AddStream", "AddUniStream", "AddSession"} /\ ~sessions[mx.k].present
    \/ mx.op = "exit" /\ ExitEntry(sessions[mx.k]) = NoSession

PumpMapRace(q) ==
    /\ ~panicked
    /\ q \in conns
    /\ dgIn < MaxDgrams
    /\ WritesMap
    /\ panicked' = TRUE
    /\ dgIn' = dgIn + 1
    /\ UNCHANGED <<mgrVars, connVars, str, parker, task, delivered, dgOut,
                 adapterVars>>

\* ------------------------------------------------ stream adapters: resets
Plus(a, b) == U(a.hi + b.hi, a.lo + b.lo)
Minus(a, b) == U(a.hi - b.hi, a.lo - b.lo)
Less(a, b) == a.hi < b.hi \/ (a.hi = b.hi /\ a.lo < b.lo)
DivSmall(a, d) == U(a.hi \div d, ((a.hi % d) * Limb + a.lo) \div d)
ModSmall(a, d) == ((a.hi % d) * Limb + a.lo) % d

\* The reset code space: 0x52e4a40fa8db + c + c / 0x1e for c in [0, 2^32).
firstErrorCode == U(5432484, 1026267)
MaxErrorCode == U(255, 16777215)

webtransportCodeToHTTPCode(c) == Plus(firstErrorCode, Plus(c, DivSmall(c, 30)))

lastErrorCode == webtransportCodeToHTTPCode(MaxErrorCode)

\* The inverse: a code outside the space, or one of the codes the forward mapping
\* skips (0x1f * N + 0x21), is a conversion error.
httpCodeToWebtransportCode(h) ==
    IF Less(h, firstErrorCode) \/ Less(lastErrorCode, h)
       \/ ModSmall(Minus(h, U(0, 33)), 31) = 0
    THEN [ok |-> FALSE, code |-> U(0, 0)]
    ELSE LET shifted == Minus(h, firstErrorCode)
         IN [ok |-> TRUE, code |-> Minus(shifted, DivSmall(shifted, 31))]

\* (fault variant: the HTTP/3 code is handed on as it came)
maybeConvertStreamErrorRaw(err) ==
    IF err.kind = "quic.StreamError" THEN Err("StreamError", err.code) ELSE err

maybeConvertStreamError(err) ==
    IF err.kind = "nil"
    THEN Nil
    ELSE IF err.kind = "quic.StreamError"
         THEN LET r == httpCodeToWebtransportCode(err.code)
              IN IF ~r.ok
                 THEN Err("stream reset, but failed to convert stream error", err.code)
                 ELSE Err("StreamError", r.code)
         ELSE err

\* The codes the application cancels with, the errors of the QUIC layer that are
\* no stream reset, and the resets of a peer that is not this package: a code below
\* the space (H3_NO_ERROR), a skipped code, a code above the space.
Codes == {U(0, n) : n \in 0..MaxCode} \cup {Minus(MaxErrorCode, U(0, n)) : n \in 0..MaxCode}
OtherErrors == {Err("EOF", U(0, 0)), Err("deadline exceeded", U(0, 0))}
ForeignResets ==
    {Err("quic.StreamError", h) :
        h \in {U(0, 256), Plus(firstErrorCode, U(0, 30)), Plus(lastErrorCode, U(0, 1))}}

\* sendStream.CancelWrite / receiveStream.CancelRead with code c: the QUIC stream is
\* reset with the mapped code, which the peer's QUIC stream reports.
Cancel(side, c) ==
    /\ xfer.pc = "idle"
    /\ xfer' = [pc |-> "sent", side |-> side, sent |-> c,
                wire |-> Err("quic.StreamError", webtransportCodeToHTTPCode(c)),
                ret |-> Nil]
    /\ UNCHANGED <<mgrVars, panicked, connVars, str, parker, task, delivered, dgHist,
                   ostr>>

CancelWrite(c) == Cancel("write", c)
CancelRead(c) == Cancel("read", c)

\* The QUIC stream of the peer fails with err, for a reason other than a reset by
\* this package.
QuicFails(side, err) ==
    /\ xfer.pc = "idle"
    /\ xfer' = [pc |-> "sent", side |-> side, sent |-> U(0, 0), wire |-> err, ret |-> Nil]
    /\ UNCHANGED <<mgrVars, panicked, connVars, str, parker, task, delivered, dgHist,
                   ostr>>

\* receiveStream.Read (after the writer's cancel) / sendStream.Write (after the
\* reader's cancel) on the peer: the error of the QUIC stream, converted.
PeerCall(side) ==
    /\ xfer.pc = "sent"
    /\ xfer.side = side
    /\ xfer' = [xfer EXCEPT !.pc = "done", !.ret = maybeConvertStreamError(xfer.wire)]
    /\ UNCHANGED <<mgrVars, panicked, connVars, str, parker, task, delivered, dgHist,
                   ostr>>

Read == PeerCall("write") \/ PeerCall("other read")
Write == PeerCall("read") \/ PeerCall("other write")

\* ------------------------------------------------------- specifications
\* Spec: the session manager with one consumer per session.  Streams of both
\* directions arrive for a session before and after AddSession; a user goroutine
\* accepts them; the session and the manager may be closed at any time.
MgrKeys == {<<1, 3>>}
MgrTasks == {1}

Init == InitState

ManagerStep ==
    \/ \E s \in Streams, k \in MgrKeys : AddStreamLock(s, k)
    \/ AddStreamBody
    \/ \E s \in Streams, k \in MgrKeys : AddUniStreamLock(s, k)
    \/ AddUniStreamBody
    \/ \E k \in MgrKeys : AddSessionLock(k)
    \/ AddSessionBody
    \/ MgrCloseCancel
    \/ MgrCloseWait

ParkerStep ==
    \/ \E s \in Streams : TimerFire(s)
    \/ \E s \in Streams : HandleStreamCreated(s)
    \/ \E s \in Streams : HandleStreamTimeout(s)
    \/ \E s \in Streams : HandleStreamMgrDone(s)
    \/ \E s \in Streams : HandleStreamExitLock(s)
    \/ HandleStreamExitBody
    \/ \E s \in Streams : HandleUniStreamEnter(s)
    \/ \E s \in Streams : HandleUniStreamConnDone(s)
    \/ \E s \in Streams : HandleUniStreamCreated(s)
    \/ \E s \in Streams : HandleUniStreamTimeout(s)
    \/ \E s \in Streams : HandleUniStreamMgrDone(s)
    \/ \E s \in Streams : HandleUniStreamExitLock(s)
    \/ HandleUniStreamExitBody

\* The consumer's ctx is never cancelled here, so the ctx.Done() cases cannot fire.
AcceptStep(t) ==
    \/ AcceptStreamAgain(t)
    \/ AcceptStreamClosed(t)
    \/ AcceptStreamWake(t)
    \/ AcceptUniStreamAgain(t)
    \/ AcceptUniStreamClosed(t)
    \/ AcceptUniStreamWake(t)

Next ==
    \/ ManagerStep
    \/ ParkerStep
    \/ \E t \in MgrTasks, k \in MgrKeys : AcceptStream(t, k)
    \/ \E t \in MgrTasks, k \in MgrKeys : AcceptUniStream(t, k)
    \/ \E t \in MgrTasks : AcceptStep(t)
    \/ \E k \in MgrKeys : Close(k)

Spec == Init /\ [][Next]_vars


\* ------------------------------------------------------------ the claims
InSeq(x, q) == \E i \in 1..Len(q) : q[i] = x
SameQueue(r, s) == str[r].k = str[s].k /\ str[r].dir = str[s].dir
Left(s) == parker[s].pc \in {"exit", "done"}
Untouched(s) == str[s].rd = "open" /\ str[s].wr = "open"
EnqueuedOrAccepted(s) == InSeq(s, acceptQueue[str[s].k]) \/ InSeq(s, delivered)

\* C2: for one session and one direction, accept calls return the streams in the
\* order in which they were handed to AddStream / AddUniStream (stream numbers are
\* the hand-over order), parked streams included.
C2_FifoPerDirection ==
    \A i, j \in 1..Len(delivered) :
        (i < j /\ SameQueue(delivered[i], delivered[j])) => delivered[i] < delivered[j]

NoParkerFor(k) ==
    /\ \A s \in Streams : str[s].k = k => parker[s].pc \in {"none", "done"}
    /\ ~(mx.op \in {"AddStream", "AddUniStream"} /\ mx.k = k)

BothSidesRejected(s) ==
    str[s].rd = BufferedStreamRejected /\ str[s].wr = BufferedStreamRejected

\* The map holds no entry for a key without session once its last parker has exited.
EntryCollected ==
    \A k \in Keys : (NoParkerFor(k) /\ ~sessions[k].conn) => ~sessions[k].present

\* C7 as claimed: a parked bidi stream whose session is never added is, once its
\* timeout has elapsed, cancelled on the read and the write side with
\* WEBTRANSPORT_BUFFERED_STREAM_REJECTED; and after the last parker of the key has
\* exited the map no longer contains the key.
C7_TimeoutRejects ==
    /\ \A s \in Streams :
          (str[s].dir = "bidi" /\ Left(s) /\ parker[s].timer /\ ~sessions[str[s].k].conn)
              => BothSidesRejected(s)
    /\ EntryCollected

\* C7 as amended: the same, as long as the manager has not been cancelled.
C7_TimeoutRejectsUnlessClosed ==
    /\ \A s \in Streams :
          (str[s].dir = "bidi" /\ Left(s) /\ ~sessions[str[s].k].conn /\ ~mctx)
              => (parker[s].timer /\ BothSidesRejected(s))
    /\ EntryCollected

C7_Witness ==
    \E s \in Streams :
        /\ str[s].dir = "bidi" /\ parker[s].pc = "done" /\ parker[s].timer
        /\ BothSidesRejected(s)
        /\ ~sessions[str[s].k].present /\ ~mctx


\* SpecDgram: datagram dispatch.  Dial has returned for sessions 3 and 70 on
\* connection 1 and for session 3 on connection 2 (three AddSession calls on the new
\* manager, which started a pump per connection).  Session 4 of connection 1 is not
\* established yet: a bidi stream may arrive early for it and AddSession may follow.
\* The pumps receive datagrams and user goroutines call ReceiveMessage.
DgKeys == {<<1, 3>>, <<1, 70>>, <<2, 3>>}
DgEarlyKeys == {<<1, 4>>}
DgEarlyStreams == {1}
DialledEntry == [present |-> TRUE, created |-> TRUE, counter |-> 0, conn |-> TRUE]

InitDialled(ks) ==
    /\ mx = MxFree
    /\ sessions = [k \in Keys |-> IF k \in ks THEN DialledEntry ELSE NoSession]
    /\ conns = {k[1] : k \in ks}
    /\ mctx = FALSE
    /\ refCount = 0
    /\ mclose = "idle"
    /\ panicked = FALSE
    /\ cctx = [k \in Keys |-> FALSE]
    /\ reqClosed = [k \in Keys |-> 0]
    /\ acceptQueue = [k \in Keys |-> <<>>]
    /\ acceptChan = [k \in Keys |-> 0]
    /\ acceptUniQueue = [k \in Keys |-> <<>>]
    /\ acceptUniChan = [k \in Keys |-> 0]
    /\ rcvDatagramQueue = [k \in Keys |-> <<>>]
    /\ str = [s \in Streams |-> NewStream]
    /\ parker = [s \in Streams |-> NoParker]
    /\ task = [t \in Tasks |-> IdleTask]
    /\ delivered = <<>>
    /\ dgIn = 0
    /\ dgOut = [k \in Keys |-> <<>>]
    /\ xfer = NoXfer
    /\ ostr = NoOpen

InitDgram == InitDialled(DgKeys)

NextDgram ==
    \/ \E k \in DgEarlyKeys : AddSessionLock(k)
    \/ AddSessionBody
    \/ \E s \in DgEarlyStreams, k \in DgEarlyKeys : AddStreamLock(s, k)
    \/ AddStreamBody
    \/ \E s \in DgEarlyStreams : TimerFire(s)
    \/ \E s \in DgEarlyStreams : HandleStreamCreated(s)
    \/ \E s \in DgEarlyStreams : HandleStreamTimeout(s)
    \/ \E s \in DgEarlyStreams : HandleStreamExitLock(s)
    \/ HandleStreamExitBody
    \/ \E q \in QConns, m \in Sent : PumpReceive(q, m)
    \/ \E q \in QConns, d \in Malformed : PumpReceiveMalformed(q, d)
    \/ \E q \in QConns : PumpMapRace(q)
    \/ \E t \in Tasks, k \in DgKeys : ReceiveMessage(t, k)
    \/ \E t \in Tasks : ReceiveMessageData(t)

SpecDgram == InitDgram /\ [][NextDgram]_vars

Items(k) ==
    {rcvDatagramQueue[k][i] : i \in 1..Len(rcvDatagramQueue[k])}
        \cup {dgOut[k][i] : i \in 1..Len(dgOut[k])}

\* C9: a datagram is queued for, and returned by ReceiveMessage of, only the session
\* whose id is the datagram's leading varint on the connection it arrived on, and
\* it is held or returned at most once over all sessions.
C9_DatagramRouting ==
    /\ \A k \in Keys : \A it \in Items(k) : k = <<it.q, it.sid>>
    /\ \A k \in Keys :
          /\ \A i, j \in 1..Len(rcvDatagramQueue[k]) :
                i # j => rcvDatagramQueue[k][i].n # rcvDatagramQueue[k][j].n
          /\ \A i, j \in 1..Len(dgOut[k]) : i # j => dgOut[k][i].n # dgOut[k][j].n
          /\ \A i \in 1..Len(rcvDatagramQueue[k]), j \in 1..Len(dgOut[k]) :
                rcvDatagramQueue[k][i].n # dgOut[k][j].n
    /\ \A k, l \in Keys : k # l => {it.n : it \in Items(k)} \cap {it.n : it \in Items(l)} = {}

\* Sessions 3 and 70 of connection 1 have each returned a datagram to their caller.
C9_Witness ==
    /\ Len(dgOut[<<1, 3>>]) > 0
    /\ Len(dgOut[<<1, 70>>]) > 0

\* C10: the bytes queued for a session, and returned by its ReceiveMessage, are
\* exactly the payload the sender passed to SendMessage.
C10_PayloadRoundTrip ==
    \A k \in Keys : \A it \in Items(k) : it.data = it.buf

\* ---------------------------------------------------------------------------
\* SpecAccept: one established session, the streams the manager hands to it, and
\* the goroutines that call AcceptStream on it.  A goroutine that can take a step
\* of the call it is in takes it, and a critical section that was entered is left;
\* nothing obliges the user to make a further call or the peer to open a stream.
AcceptKey == <<1, 3>>

InitAccept == InitDialled({AcceptKey})

AcceptStreamStep(t) ==
    \/ AcceptStreamAgain(t)
    \/ AcceptStreamClosed(t)
    \/ AcceptStreamCancelled(t)
    \/ AcceptStreamWake(t)

NextAccept ==
    \/ \E s \in Streams : AddStreamLock(s, AcceptKey)
    \/ AddStreamBody
    \/ \E t \in Tasks : AcceptStream(t, AcceptKey)
    \/ \E t \in Tasks : CallerCancel(t)
    \/ \E t \in Tasks : AcceptStreamStep(t)
    \/ Close(AcceptKey)
    \/ StreamCtxDone(AcceptKey)

SpecAccept ==
    /\ InitAccept
    /\ [][NextAccept]_vars
    /\ \A t \in Tasks : WF_vars(AcceptStreamStep(t))
    /\ WF_vars(AddStreamBody)

\* ---------------------------------------------------------------------------
\* SpecCalls: one established session and goroutines in any of its blocking calls.
\* The same steps are fair as in SpecAccept; the peer is not obliged to grant
\* stream credit or to send a datagram.
CallTasks == {1}
CallStreams == {1}
CallSent == {[sid |-> 3, buf |-> <<>>]}

CallStep(t) ==
    \/ AcceptStreamStep(t)
    \/ AcceptUniStreamAgain(t)
    \/ AcceptUniStreamClosed(t)
    \/ AcceptUniStreamCancelled(t)
    \/ AcceptUniStreamWake(t)
    \/ OpenStreamSyncCancelled(t)
    \/ OpenUniStreamSyncCancelled(t)
    \/ ReceiveMessageData(t)
    \/ ReceiveMessageClosed(t)

NextCalls ==
    \/ \E s \in CallStreams : AddStreamLock(s, AcceptKey)
    \/ AddStreamBody
    \/ \E s \in CallStreams : AddUniStreamLock(s, AcceptKey)
    \/ AddUniStreamBody
    \/ \E m \in CallSent : PumpReceive(1, m)
    \/ \E t \in CallTasks : AcceptStream(t, AcceptKey)
    \/ \E t \in CallTasks : AcceptUniStream(t, AcceptKey)
    \/ \E t \in CallTasks : OpenStreamSync(t, AcceptKey)
    \/ \E t \in CallTasks : OpenUniStreamSync(t, AcceptKey)
    \/ \E t \in CallTasks : ReceiveMessage(t, AcceptKey)
    \/ \E t \in CallTasks : CallerCancel(t)
    \/ \E t \in CallTasks : CallStep(t)
    \/ \E t \in CallTasks : OpenStreamSyncGranted(t)
    \/ \E t \in CallTasks : OpenUniStreamSyncGranted(t)
    \/ Close(AcceptKey)
    \/ StreamCtxDone(AcceptKey)

SpecCalls ==
    /\ InitAccept
    /\ [][NextCalls]_vars
    /\ \A t \in CallTasks : WF_vars(CallStep(t))
    /\ WF_vars(AddStreamBody)
    /\ WF_vars(AddUniStreamBody)

\* ---------------------------------------------------------------------------
\* C1 (No lost wake-up in accept): a caller blocked in AcceptStream while the bidi
\* accept queue of its session is non-empty, with neither its own ctx nor the
\* session's ctx done, eventually returns a stream -- or, at the least, the queue
\* is emptied by the other callers or one of the two cancellations fires -- with
\* no further stream having to be enqueued.
WaitsInAccept(t) == InCall(t, "AcceptStream") /\ task[t].pc = "select"

C1_NoLostWakeup ==
    \A t \in Tasks :
        [](( /\ WaitsInAccept(t)
             /\ acceptQueue[AcceptKey] # <<>>
             /\ ~task[t].cancel
             /\ ~cctx[AcceptKey] )
           => <>( \/ (Returned(t) /\ task[t].res = "stream")
                  \/ acceptQueue[AcceptKey] = <<>>
                  \/ task[t].cancel
                  \/ cctx[AcceptKey] ))

C4_SessionCancelUnblocks ==
    \A t \in CallTasks :
        []((Blocked(t) /\ cctx[AcceptKey]) => <>Returned(t))

\* C5 (Caller cancellation): a goroutine blocked in any of the five blocking calls
\* with nothing to return, whose caller fires the cancellation signal, returns
\* Cancelled.
NothingToReturn(t) ==
    /\ task[t].op = "AcceptStream" => acceptQueue[AcceptKey] = <<>>
    /\ task[t].op = "AcceptUniStream" => acceptUniQueue[AcceptKey] = <<>>
    /\ task[t].op = "ReceiveMessage" => rcvDatagramQueue[AcceptKey] = <<>>

C5_CallerCancelReturns ==
    \A t \in CallTasks :
        []((Blocked(t) /\ task[t].cancel /\ NothingToReturn(t) /\ ~cctx[AcceptKey])
           => <>( \/ Returned(t)
                  \/ ~NothingToReturn(t)
                  \/ cctx[AcceptKey] ))

\* C8 (No stream is leaked): a stream that sits in the bidi accept queue of a
\* session whose ctx is done -- queued before the close or handed over after it --
\* eventually leaves the queue: returned to a caller, reset, or drained.
C8_QueuedStreamNotLeaked ==
    \A s \in Streams :
        []((InSeq(s, acceptQueue[AcceptKey]) /\ cctx[AcceptKey])
           => <>(~InSeq(s, acceptQueue[AcceptKey])))

\* ---------------------------------------------------------------------------
\* SpecOverflow: one established session whose pump receives a burst of up to
\* MaxBurst datagrams, more than the datagram queue holds, while a user goroutine
\* calls ReceiveMessage whenever it likes (or not at all).
BurstTasks == {1}
BurstSent == [sid |-> AcceptKey[2], buf |-> <<>>]

PumpReceiveBurst ==
    /\ dgIn < MaxBurst
    /\ PumpRound(AcceptKey[1], SendMessage(BurstSent.sid, BurstSent.buf),
                 BurstSent.sid, BurstSent.buf)

NextOverflow ==
    \/ PumpReceiveBurst
    \/ \E t \in BurstTasks : ReceiveMessage(t, AcceptKey)
    \/ \E t \in BurstTasks : ReceiveMessageData(t)

SpecOverflow == InitAccept /\ [][NextOverflow]_vars

\* The datagrams of session k in the order ReceiveMessage returns them: those
\* already returned, then those queued.
Returnable(k) == dgOut[k] \o rcvDatagramQueue[k]

\* C11 (Datagram overflow policy): the datagram queue of a session never holds more
\* than 128 datagrams; what ReceiveMessage returns is an order-preserving
\* subsequence of the arrivals (n is the arrival number); a datagram is missing
\* from it only if it arrived at a full queue, so as long as no consumer has run
\* the queue holds exactly the first min(arrived, 128) datagrams.
C11_DatagramOverflow ==
    LET all == Returnable(AcceptKey)
        q == rcvDatagramQueue[AcceptKey]
    IN /\ Len(q) <= rcvDatagramQueueCap
       /\ \A i \in 1..(Len(all) - 1) : all[i].n < all[i + 1].n
       /\ dgOut[AcceptKey] = <<>> =>
             /\ Len(q) = (IF dgIn < rcvDatagramQueueCap THEN dgIn ELSE rcvDatagramQueueCap)
             /\ \A i \in 1..Len(q) : q[i].n = i
       /\ Len(all) >= (IF dgIn < rcvDatagramQueueCap THEN dgIn ELSE rcvDatagramQueueCap)

\* More datagrams arrived than the queue holds before any was read, and the consumer
\* then drained the queue: exactly the first rcvDatagramQueueCap were returned.
C11_Witness ==
    /\ dgIn = MaxBurst
    /\ rcvDatagramQueue[AcceptKey] = <<>>
    /\ Len(dgOut[AcceptKey]) = rcvDatagramQueueCap
    /\ \A i \in 1..rcvDatagramQueueCap : dgOut[AcceptKey][i].n = i

\* ---------------------------------------------------------------------------
\* SpecReset: one stream between two adapters.  One side cancels with a code, or the
\* QUIC layer reports some other error, and the peer's Read or Write returns.
NextReset ==
    \/ \E c \in Codes : CancelWrite(c)
    \/ \E c \in Codes : CancelRead(c)
    \/ \E e \in OtherErrors \cup ForeignResets : QuicFails("other read", e)
    \/ \E e \in OtherErrors \cup ForeignResets : QuicFails("other write", e)
    \/ Read
    \/ Write

SpecReset == InitState /\ [][NextReset]_vars

\* C12 (Reset code round-trip): after CancelWrite(c) (or CancelRead(c)) the code on
\* the wire is wt_to_http(c) and the peer's Read (or Write) returns a StreamError
\* carrying exactly c; an error of the QUIC layer that is not a stream reset is
\* returned unchanged.
C12_ResetRoundTrip ==
    /\ xfer.side \in {"write", "read"} =>
          xfer.wire = Err("quic.StreamError", webtransportCodeToHTTPCode(xfer.sent))
    /\ (xfer.pc = "done" /\ xfer.side \in {"write", "read"}) =>
          xfer.ret = Err("StreamError", xfer.sent)
    /\ (xfer.pc = "done" /\ xfer.wire.kind # "quic.StreamError") => xfer.ret = xfer.wire

\* CancelWrite(2^32 - 1) went over the wire as 0x52e5ac983162 and came back as
\* StreamError{2^32 - 1}.
C12_Witness ==
    /\ xfer.pc = "done"
    /\ xfer.side = "write"
    /\ xfer.sent = MaxErrorCode
    /\ xfer.wire.code = U(5432748, 9974114)
    /\ xfer.ret = Err("StreamError", MaxErrorCode)

\* ---------------------------------------------------------------------------
\* SpecOpen: the sessions of SpecDgram (ids 3 and 70) open streams of both
\* directions, with and without blocking, and write payload on them.
OpenPayloads == {<<>>, <<97>>}

NextOpen ==
    \/ \E k \in DgKeys : OpenStream(k)
    \/ \E k \in DgKeys : OpenUniStream(k)
    \/ \E t \in CallTasks, k \in DgKeys : OpenStreamSync(t, k)
    \/ \E t \in CallTasks, k \in DgKeys : OpenUniStreamSync(t, k)
    \/ \E t \in CallTasks : CallerCancel(t)
    \/ \E t \in CallTasks : OpenStreamSyncGranted(t)
    \/ \E t \in CallTasks : OpenStreamSyncCancelled(t)
    \/ \E t \in CallTasks : OpenUniStreamSyncGranted(t)
    \/ \E t \in CallTasks : OpenUniStreamSyncCancelled(t)
    \/ \E b \in OpenPayloads : WritePayload(b)

SpecOpen == InitDgram /\ [][NextOpen]_vars

\* The bytes w are exactly varint(type) || varint(id): decoded, not re-encoded.
IsHeader(w, type, id) ==
    LET first == VarintRead(w)
        rest == SubSeq(w, VarintLen(type) + 1, Len(w))
    IN /\ first.ok /\ first.v = type
       /\ Len(w) > VarintLen(type)
       /\ VarintRead(rest).ok /\ VarintRead(rest).v = id
       /\ Len(rest) = VarintLen(id)

\* C13 (Stream header on open): a stream adapter returned by an Open call wraps a
\* QUIC stream that was opened and whose first Write carried exactly
\* varint(0x41) || varint(session id) (bidi) or varint(0x54) || varint(session id)
\* (uni), payload coming only in later writes; if the open or the header write
\* failed, no adapter was returned.
C13_HeaderOnOpen ==
    /\ ostr.adapter =>
          /\ ostr.opened
          /\ Len(ostr.writes) >= 1
          /\ IsHeader(ostr.writes[1], IF ostr.dir = "bidi" THEN 65 ELSE 84, ostr.k[2])
    /\ (~ostr.opened \/ ostr.writes = <<>>) => ~ostr.adapter

\* OpenUniStreamSync on session 70 returned an adapter and the user wrote "a".
C13_Witness ==
    /\ ostr.adapter
    /\ ostr.k = <<1, 70>>
    /\ ostr.writes = <<<<64, 84, 64, 70>>, <<97>>>>
    /\ \E t \in CallTasks : Returned(t) /\ task[t].op = "OpenUniStreamSync"
                            /\ task[t].res = "opened"

\* C14 (Session close is idempotent and does not touch queues): a call of
\* Conn.Close() (the step that counts up reqClosed) leaves the session cancelled
\* and the CONNECT request closed; a second or later call changes neither; and no
\* call changes the bidi accept queue, the uni accept queue or the datagram queue,
\* nor the state of any stream.
C14_CloseIdempotentKeepsQueues ==
    [][\A k \in Keys :
          reqClosed'[k] # reqClosed[k]
          => /\ cctx'[k] /\ reqClosed'[k] > 0
             /\ reqClosed[k] > 0 => (cctx[k] /\ cctx' = cctx)
             /\ acceptQueue' = acceptQueue
             /\ acceptUniQueue' = acceptUniQueue
             /\ rcvDatagramQueue' = rcvDatagramQueue
             /\ str' = str]_vars

\* Close() was called twice on a session with a stream and a datagram queued.
C14_Witness ==
    /\ reqClosed[AcceptKey] = 2
    /\ cctx[AcceptKey]
    /\ acceptQueue[AcceptKey] # <<>> \/ acceptUniQueue[AcceptKey] # <<>>
    /\ rcvDatagramQueue[AcceptKey] # <<>>

\* C15 (Pending-entry invariant): whenever m.mx is not held, the manager map has no
\* entry with counter = 0 and no session attached.
C15_NoIdlePendingEntry ==
    mx = MxFree =>
        \A k \in Keys : sessions[k].present => (sessions[k].counter > 0 \/ sessions[k].conn)

\* Two streams were parked on one pending entry; one timed out and has left, the
\* entry stays for the other.
C15_Witness ==
    /\ mx = MxFree
    /\ \E r, s \in Streams :
          /\ r # s /\ str[r].k = str[s].k
          /\ parker[r].pc = "done" /\ str[r].st = "reset"
          /\ parker[s].pc = "select"
          /\ sessions[str[s].k].present /\ ~sessions[str[s].k].conn
          /\ sessions[str[s].k].counter = 1

\* C16 (Early unidirectional stream): a uni stream handed to AddUniStream before its
\* session exists is parked without failure (the process does not die); its
\* parking goroutine enqueues it on the uni accept queue only with the session
\* attached, and on timeout cancels only the read side, with
\* WEBTRANSPORT_BUFFERED_STREAM_REJECTED; once the last parker has left and no
\* session is attached the entry is gone.
C16_EarlyUniStreamParked ==
    /\ ~panicked
    /\ \A s \in Streams :
          str[s].dir = "uni" =>
             /\ InSeq(s, acceptUniQueue[str[s].k]) => sessions[str[s].k].conn
             /\ str[s].st = "reset" =>
                   (str[s].rd = BufferedStreamRejected /\ str[s].wr = "open")
    /\ EntryCollected

\* C17 (Datagram pump start): once AddSession has attached a session on a
\* connection, a datagram pump runs for that connection, whether or not a pending
\* entry existed for the key.
C17_PumpStartedWithSession ==
    \A k \in Keys : Attached(k) => k[1] \in conns

\* C18 (Manager shutdown joins all spawned tasks): at the step at which
\* sessionManager.Close() returns, every parking goroutine and every datagram pump
\* the manager started has finished; and a stream whose parker was woken by the
\* manager's cancellation is neither enqueued nor reset.
C18_CloseJoinsAll ==
    [][ /\ (mclose = "wait" /\ mclose' = "done") =>
              /\ \A s \in Streams : parker[s].pc \in {"none", "done"}
              /\ conns = {}
        /\ \A s \in Streams :
              str'[s].st = "dropped" =>
                 /\ str'[s].rd = "open" /\ str'[s].wr = "open"
                 /\ ~InSeq(s, acceptQueue'[str'[s].k])
                 /\ ~InSeq(s, acceptUniQueue'[str'[s].k])
                 /\ ~InSeq(s, delivered') ]_vars

\* C19 (Mutual exclusion on the manager map): the datagram pump looks a key up in
\* the sessions map (a round: dgIn counts up) only while no other goroutine is
\* inside a critical section of m.mx, as it would if it held m.mx itself.
C19_PumpReadsUnderMutex ==
    [][dgIn' # dgIn => mx = MxFree]_vars

\* C20 (Datagram for a missing session): a round of the pump for a datagram whose
\* session is not attached -- no entry, or a pending entry with parked streams --
\* changes no datagram queue and not the map, and the pump goes on (the process
\* does not die).  Rounds that overlap a critical section are left aside.
C20_MissingSessionDropped ==
    [][(dgIn' # dgIn /\ mx = MxFree) =>
          /\ sessions' = sessions
          /\ \A k \in Keys : ~Attached(k) => rcvDatagramQueue'[k] = rcvDatagramQueue[k]
          /\ ~panicked']_vars

\* The number of places stream s sits in: the accept queues of all sessions and
\* the streams accept calls have returned.
Occurrences(s, q) == Cardinality({i \in 1..Len(q) : q[i] = s})
TimesEnqueued(s) ==
    LET total[ks \in SUBSET Keys] ==
            IF ks = {} THEN 0
            ELSE LET k == CHOOSE x \in ks : TRUE
                 IN  Occurrences(s, acceptQueue[k]) + Occurrences(s, acceptUniQueue[k])
                        + total[ks \ {k}]
    IN  total[Keys] + Occurrences(s, delivered)

\* The three exits of a parking goroutine, seen on its stream.
ExitEnqueued(s) == TimesEnqueued(s) = 1 /\ Untouched(s) /\ sessions[str[s].k].created
ExitReset(s) ==
    /\ TimesEnqueued(s) = 0
    /\ parker[s].timer
    /\ str[s].rd = BufferedStreamRejected
    /\ str[s].wr = IF str[s].dir = "bidi" THEN BufferedStreamRejected ELSE "open"
ExitDropped(s) == TimesEnqueued(s) = 0 /\ Untouched(s) /\ str[s].st = "dropped"

Waiting(k) == {s \in Streams : str[s].k = k /\ parker[s].pc \in {"start", "select", "exit"}}

\* C22 (Waiter count is exact): whenever m.mx is free, the counter of every entry
\* equals the number of parking goroutines started for it that have not yet done
\* their exit decrement (for a key without entry there is none), and it is never
\* negative; a goroutine is started only for an entry without session, and a stream
\* arriving for an attached session is enqueued and leaves the counter alone.
C22_WaiterCountExact ==
    /\ [](\A k \in Keys :
             /\ sessions[k].counter >= 0
             /\ mx = MxFree => sessions[k].counter = Cardinality(Waiting(k)))
    /\ [][\A s \in Streams :
             /\ (parker[s].pc = "none" /\ parker'[s].pc # "none") => ~Attached(str[s].k)
             /\ (str[s].st = "adding" /\ str'[s].st # "adding" /\ Attached(str[s].k)) =>
                    /\ sessions' = sessions
                    /\ parker'[s].pc = "none"
                    /\ TimesEnqueued(s)' = 1]_vars

\* An attached session with one goroutine still to exit, and a later stream that was
\* enqueued directly.
C22_Witness ==
    /\ mx = MxFree
    /\ \E k \in Keys, s, r \in Streams :
          /\ Attached(k) /\ sessions[k].counter = 1
          /\ Waiting(k) = {s}
          /\ str[r].k = k /\ parker[r].pc = "none" /\ str[r].st = "queued"

\* C23 (Created signal matches attachment): in every entry of the map created is
\* closed exactly if a Conn is attached; a closed created stays closed; an attached
\* entry stays in the map with its Conn, also after that Conn is closed; and a
\* parking goroutine that takes the created case finds a Conn attached.
C23_CreatedMatchesAttachment ==
    /\ [](\A k \in Keys : sessions[k].created <=> Attached(k))
    /\ [][ /\ \A k \in Keys :
                /\ sessions[k].created => sessions'[k].created
                /\ Attached(k) => (sessions'[k].present /\ sessions'[k].conn)
           /\ \A s \in Streams :
                (parker[s].pc = "select" /\ TimesEnqueued(s)' = 1) => Attached(str[s].k)
         ]_vars

\* A session attached to a pending entry and closed later, whose parked stream the
\* goroutine woken by created has enqueued, and whose entry has outlived the exit of
\* that goroutine.
C23_Witness ==
    \E s \in Streams :
        /\ parker[s].pc = "done" /\ parker[s].intime /\ ExitEnqueued(s)
        /\ Attached(str[s].k) /\ sessions[str[s].k].counter = 0
        /\ cctx[str[s].k] /\ reqClosed[str[s].k] > 0

\* The accept queue an accept call of the given name works on.
QueueOf(op, k) == IF op = "AcceptStream" THEN acceptQueue[k] ELSE acceptUniQueue[k]

\* C24 (Accept hands out each stream once): no stream is returned by two accept
\* calls, and a returned stream is no longer queued; an accept call that returns
\* success returns the stream that headed its queue and takes it off; and a caller
\* that comes back from a wake to an empty queue goes to wait in the select again.
C24_AcceptHandsOutOnce ==
    /\ [](\A s \in Streams : TimesEnqueued(s) <= 1)
    /\ [][\A t \in Tasks :
             /\ ( /\ task'[t] # task[t]
                  /\ task'[t].op \in {"AcceptStream", "AcceptUniStream"}
                  /\ task'[t].pc = "done" /\ task'[t].res = "stream" ) =>
                    LET q == QueueOf(task'[t].op, task'[t].k)
                    IN  /\ q # <<>>
                        /\ delivered' = Append(delivered, Head(q))
                        /\ Tail(q) = IF task'[t].op = "AcceptStream"
                                     THEN acceptQueue'[task'[t].k]
                                     ELSE acceptUniQueue'[task'[t].k]
             /\ ( /\ task'[t].pc # "check"
                  /\ task[t].pc = "check"
                  /\ QueueOf(task[t].op, task[t].k) = <<>> ) =>
                    /\ task'[t].pc = "select" /\ task'[t].res = "none"
                    /\ delivered' = delivered]_vars

\* Two callers and one stream: one caller has returned the stream, the other has
\* taken the signal left behind and comes back to an empty queue.
C24_Witness ==
    \E a, b \in Tasks :
        /\ a # b
        /\ task[a].pc = "done" /\ task[a].res = "stream"
        /\ task[b].pc = "check" /\ task[b].op = "AcceptStream"
        /\ acceptQueue[task[b].k] = <<>>
        /\ Len(delivered) = 1

====
